---------------------------- MODULE Spec2Model ----------------------------
(***************************************************************************)
(* Block template assembler and miner loop of src/src/miner.cpp.           *)
(*                                                                         *)
(* Three parts share one state:                                            *)
(*   - CreateNewBlock: the mempool filter, the priority/fee selection loop *)
(*     and the finalisation of a PoW or PoS template;                      *)
(*   - ProcessBlockFound called by several miner workers while the network *)
(*     advances the best block;                                            *)
(*   - GetListOfPoSInfo / CreateNewPoABlock over an active chain.          *)
(***************************************************************************)
EXTENDS Integers, Sequences, FiniteSets, TLC

(***************************************************************************)
(* Bounds of the model.                                                    *)
(***************************************************************************)
MaxTx == 3          \* transactions in the mempool snapshot
MaxHeight == 10      \* highest block the active chain grows to
NumWorkers == 2     \* miner workers
MaxHash == 3        \* block hashes handed out to workers and the network

\* Chain parameters (Params()), scaled down.
LAST_POW_BLOCK == 2
START_POA_BLOCK == 4
MAX_NUM_POS_BLOCKS_AUDITED == 3
HardFork == 6

(***************************************************************************)
(* Program constants.                                                      *)
(***************************************************************************)
MAX_BLOCK_SIZE_CURRENT == 2000000   \* network maximum used by the clamp
CoinbaseReserve == 1000             \* initial value of nBlockSize
COIN == 100000000
MinRelayTxFee == 5000               \* customMinRelayTxFee
AllowFreeThreshold == 57600000      \* COIN * 144 / 250

TxIds == 1..MaxTx

Max(a, b) == IF a >= b THEN a ELSE b
Min(a, b) == IF a <= b THEN a ELSE b

(***************************************************************************)
(* The chain state the filter consults.  Key image 3 is already spent      *)
(* on-chain; outpoint 199 is in the invalid-outputs set.  The coins view   *)
(* holds the outputs of confirmed transactions only: outpoints 101..103    *)
(* and 199.  An outpoint j in TxIds is an output of mempool transaction j  *)
(* and is not in the view.                                                 *)
(***************************************************************************)
SpentKeyImages == {3}
InvalidOutPoints == {199}
CoinsView == {101, 102, 103, 199}

IsSpentKeyImage(ki) == ki \in SpentKeyImages
ContainsOutPoint(po) == po \in InvalidOutPoints

\* CFeeRate(nFeePaid, nSize): fee per 1000 bytes.
CFeeRate(nFee, nSize) == IF nSize > 0 THEN (nFee * 1000) \div nSize ELSE 0

\* AllowFree(dPriority)
AllowFree(dPriority) == dPriority > AllowFreeThreshold

\* CheckHaveInputs(view, tx): every input's outpoint is in the coins view.
CheckHaveInputs(view, tx) ==
    \A i \in 1..Len(tx.vin) : tx.vin[i].prevout \in view


(***************************************************************************)
(* State.                                                                  *)
(***************************************************************************)
VARIABLES
    \* ---- inputs of one CreateNewBlock call ----
    mempool,             \* mempool.mapTx: tx id (map order) -> transaction
    args,                \* -blockmaxsize, -blockprioritysize, -blockminsize
    fProofOfStake,       \* mode flag of the call
    \* ---- locals of CreateNewBlock ----
    bpc,                 \* position: "start", "tip", "begin", "collect",
                         \* "select", "finish", "done", "returned",
                         \* "aborted"
    nBlockMaxSize, nBlockPrioritySize, nBlockMinSize,
    keyImages,           \* std::set<CKeyImage> keyImages
    vecPriority,         \* the heap, as the set of tx ids it holds
    mapDependers,        \* hash -> orphans waiting for it
    fSortedByFee,
    nBlockSize, nBlockTx, nFees,
    vtx, vTxFees, vTxSigOps,   \* the template under construction
    coinbaseSize,        \* serialized size of vtx[0]
    coinstakeSize,       \* serialized size of the wallet's coinstake
    popped,              \* the transaction taken off the heap by the last pop
    fate,                \* what the build did with each mempool transaction
    order,               \* admission order and the mode of each admission
    result,              \* "building", "null", "template" or "aborted"
    \* ---- the chain tip as read at four places ----
    pindexPrevCaller,    \* BitcoinMiner's pindexPrev (line 777)
    pindexPrevOuter,     \* CreateNewBlock's first pindexPrev (line 175)
    prev,                \* chainActive.Tip() of line 196
    pindexPrevInner,     \* the pindexPrev read under cs_main (line 257)
    \* ---- coinbase, coinstake and header of the template ----
    txNew,               \* the local CMutableTransaction of lines 188-200
    coinbaseTx,          \* pblock->vtx[0]
    coinstakeTx,         \* pblock->vtx[1] of a proof-of-stake block
    payee,               \* pblock->payee was set (line 421)
    hashPrevBlock,       \* pblock->hashPrevBlock
    nExtraNonce,         \* BitcoinMiner's counter (line 717)
    lastPrevBlock,       \* static hashPrevBlock of IncrementExtraNonce
    hashMerkleRoot,      \* pblock->hashMerkleRoot
    noncedPrevBlock      \* hashPrevBlock of the block BitcoinMiner last
                         \* passed through IncrementExtraNonce (line 787)

tipVars == <<pindexPrevCaller, pindexPrevOuter, prev, pindexPrevInner>>
coinVars == <<txNew, coinbaseTx, coinstakeTx, payee, hashPrevBlock,
              nExtraNonce, lastPrevBlock, hashMerkleRoot, noncedPrevBlock>>

buildVars == <<mempool, args, fProofOfStake, bpc, nBlockMaxSize,
               nBlockPrioritySize, nBlockMinSize, keyImages, vecPriority,
               mapDependers, fSortedByFee, nBlockSize, nBlockTx, nFees, vtx,
               vTxFees, vTxSigOps, coinbaseSize, coinstakeSize, popped,
               fate, order, result, tipVars, coinVars>>

VARIABLES
    \* ---- the active chain seen by the PoA builder ----
    chainActive,         \* chainActive[h] is element h + 1
    \* ---- the last CreateNewPoABlock call ----
    poaAudits,           \* pblock->posBlocksAudited after GetListOfPoSInfo
    poaResult,           \* "none", "null", "threw", "crash" or "template"
    poaTemplate          \* the returned template, when there is one

poaVars == <<chainActive, poaAudits, poaResult, poaTemplate>>

VARIABLES
    \* ---- the best block, as the miner workers see it ----
    g_best_block,        \* hash of the best block
    nBestHeight,         \* chainActive.Tip()->nHeight
    nextHash,            \* the next unused block hash
    fGeneratePrcycoins,
    \* ---- BitcoinMiner, one per worker ----
    wpc,                 \* position of the worker
    wPoS,                \* its fProofOfStake
    fLastLoopOrphan,
    pindexPrev,          \* the tip it read before building (line 777)
    pblock,              \* the block of its current template
    site,                \* which call of ProcessBlockFound is running
    observed,            \* g_best_block as read under g_best_block_mutex
    ret,                 \* what its last ProcessBlockFound returned
    \* ---- effects of ProcessBlockFound ----
    keptKeys,            \* hashes of the blocks whose reserve key was kept
    mapRequestCount,     \* hashes with a wallet request counter
    blockFound,          \* hashes signalled through BlockFound
    processed,           \* hashes handed to ProcessNewBlock
    inventory,           \* hashes pushed to the peers
    \* ---- GeneratePrcycoins and the threads it owns ----
    minerThreads,        \* the workers of the current group; {} when NULL
    interrupted          \* interruption requested for the worker's thread

chainVars == <<g_best_block, nBestHeight, nextHash, fGeneratePrcycoins>>
workerVars == <<wpc, wPoS, fLastLoopOrphan, pindexPrev, pblock, site,
                observed, ret>>
effectVars == <<keptKeys, mapRequestCount, blockFound, processed, inventory>>
superVars == <<minerThreads, interrupted>>
minerVars == <<chainVars, workerVars, effectVars, superVars>>

vars == <<buildVars, poaVars, minerVars>>

\* The null hash, uint256(0).
NullHash == 0

(***************************************************************************)
(* vtx entries: 0 is the coinbase, -1 the coinstake, a tx id otherwise.    *)
(***************************************************************************)
Coinbase == 0
Coinstake == 0 - 1

\* Serialized sizes of the coinbase built from the caller's script and keys.
CoinbaseSizes == {250}
\* Serialized sizes of the coinstake the wallet may return.
CoinstakeSizes == {400, 1200}

(***************************************************************************)
(* TxPriorityCompare::operator(): a orders before b.                       *)
(***************************************************************************)
dPriorityOf(t) == mempool[t].prio
feeRateOf(t) == CFeeRate(mempool[t].fee, mempool[t].size)

TxPriorityCompare(byFee, a, b) ==
    IF byFee
    THEN IF feeRateOf(a) = feeRateOf(b)
         THEN dPriorityOf(a) < dPriorityOf(b)
         ELSE feeRateOf(a) < feeRateOf(b)
    ELSE IF dPriorityOf(a) = dPriorityOf(b)
         THEN feeRateOf(a) < feeRateOf(b)
         ELSE dPriorityOf(a) < dPriorityOf(b)

\* vecPriority.front() of a heap built with the comparer: an entry no other
\* entry orders after.  Entries that compare equal may each be the front.
HeapFront(heap, byFee) ==
    {t \in heap : \A u \in heap : ~TxPriorityCompare(byFee, t, u)}

(***************************************************************************)
(* The key-image and invalid-input scan of one transaction (lines 276-289).*)
(* Returns fKeyImageCheck after the loop.                                  *)
(***************************************************************************)
RECURSIVE KeyImageScan(_, _)
KeyImageScan(vin, i) ==
    IF i > Len(vin) THEN TRUE
    ELSE IF IsSpentKeyImage(vin[i].keyImage) THEN FALSE      \* false, break
    ELSE IF ContainsOutPoint(vin[i].prevout) THEN TRUE       \* break only
    ELSE KeyImageScan(vin, i + 1)

fKeyImageCheck(tx) == KeyImageScan(tx.vin, 1)

(***************************************************************************)
(* The duplicate scan of one transaction (lines 310-318): every key image  *)
(* met before the first duplicate is inserted into the set.                *)
(***************************************************************************)
\* Faulty variant of DuplicateScan: the keyImages.count test is dropped.
DuplicateScanNoCount(vin, i, set) ==
    [isDuplicate |-> FALSE,
     keyImages |-> set \cup {vin[j].keyImage : j \in i..Len(vin)}]

RECURSIVE DuplicateScan(_, _, _)
DuplicateScan(vin, i, set) ==
    IF i > Len(vin) THEN [isDuplicate |-> FALSE, keyImages |-> set]
    ELSE IF vin[i].keyImage \in set
         THEN [isDuplicate |-> TRUE, keyImages |-> set]
         ELSE DuplicateScan(vin, i + 1, set \cup {vin[i].keyImage})

(***************************************************************************)
(* One iteration of the mempool loop (lines 270-321) on transaction mi.    *)
(* st = [keyImages, vecPriority, fate].                                    *)
(***************************************************************************)
FilterTx(st, mi) ==
    LET tx == mempool[mi] IN
    IF tx.kind # "standard" \/ ~tx.final
    THEN [st EXCEPT !.fate[mi] = "notEligible"]
    ELSE IF ~fKeyImageCheck(tx)
    THEN [st EXCEPT !.fate[mi] = "spentKeyImage"]
    ELSE IF ~CheckHaveInputs(CoinsView, tx)
    THEN [st EXCEPT !.fate[mi] = "missingInputs"]
    ELSE LET d == DuplicateScan(tx.vin, 1, st.keyImages) IN
         IF d.isDuplicate
         THEN [st EXCEPT !.keyImages = d.keyImages, !.fate[mi] = "duplicate"]
         ELSE [st EXCEPT !.keyImages = d.keyImages,
                         !.vecPriority = @ \cup {mi},
                         !.fate[mi] = "heap"]

RECURSIVE FilterLoop(_, _)
FilterLoop(st, mi) ==
    IF mi > MaxTx THEN st ELSE FilterLoop(FilterTx(st, mi), mi + 1)


(***************************************************************************)
(* CreateNewBlock, lines 160-252: coinbase, coinstake search (PoS), and    *)
(* the clamped size budgets.  The wallet's answer to CreateCoinStake and   *)
(* the clock are inputs of the step.                                       *)
(***************************************************************************)
ClampMaxSize(arg) ==
    Max(1000, Min(MAX_BLOCK_SIZE_CURRENT - 1000, arg))

\* A block index entry, and chainActive.Tip().
NoIndex == [hash |-> NullHash, nHeight |-> 0 - 1]
Tip == [hash |-> g_best_block, nHeight |-> nBestHeight]

\* The block subsidy: a function of the height alone.
GetBlockValue(nHeight) == IF nHeight = 0 THEN 2 * COIN ELSE COIN

\* Transactions of the template: the values and scripts of the outputs, and
\* the scriptSig of the first input as <<height, extra nonce>>.
NoTx == [vout |-> <<>>, scriptSig |-> <<>>]
TxOut(nValue, scriptPubKey) ==
    [nValue |-> nValue, scriptPubKey |-> scriptPubKey]

\* CTxOut::SetEmpty and CTxOut::IsEmpty.
SetEmpty(out) == TxOut(0, "")
IsEmpty(out) == out.nValue = 0 /\ out.scriptPubKey = ""

\* CTransaction::IsCoinStake, as far as the outputs go.
IsCoinStake(tx) == Len(tx.vout) >= 2 /\ IsEmpty(tx.vout[1])

\* The coinstake CreateCoinStake returns: the empty marker, the staked
\* output and the reward output.
StakeValue == 10 * COIN
WalletCoinstake ==
    [vout |-> <<TxOut(0, ""), TxOut(StakeValue, "stake"),
                TxOut(COIN, "stake")>>,
     scriptSig |-> <<>>]

\* Lines 773-782 and 635-655: BitcoinMiner reads the tip and calls
\* CreateNewBlockWithKey, which returns nothing when the wallet has no
\* address or when a proof-of-work block is asked for after LAST_POW_BLOCK.
EnterBuild ==
    /\ bpc = "start"
    /\ pindexPrevCaller' = Tip
    /\ \E addrOk \in BOOLEAN :
         IF addrOk /\ (fProofOfStake \/ nBestHeight + 1 <= LAST_POW_BLOCK)
         THEN bpc' = "tip" /\ result' = "building"
         ELSE bpc' = "done" /\ result' = "null"
    /\ UNCHANGED <<mempool, args, fProofOfStake, nBlockMaxSize,
                   nBlockPrioritySize, nBlockMinSize, keyImages, vecPriority,
                   mapDependers, fSortedByFee, nBlockSize, nBlockTx, nFees,
                   vtx, vTxFees, vTxSigOps, coinbaseSize, coinstakeSize,
                   popped, fate, order>>
    /\ UNCHANGED <<pindexPrevOuter, prev, pindexPrevInner, coinVars>>
    /\ UNCHANGED <<poaVars, minerVars>>

\* Lines 160-178: the first tip read of CreateNewBlock, under cs_main.
ReadTip ==
    /\ bpc = "tip"
    /\ pindexPrevOuter' = Tip
    /\ bpc' = "begin"
    /\ UNCHANGED <<mempool, args, fProofOfStake, nBlockMaxSize,
                   nBlockPrioritySize, nBlockMinSize, keyImages, vecPriority,
                   mapDependers, fSortedByFee, nBlockSize, nBlockTx, nFees,
                   vtx, vTxFees, vTxSigOps, coinbaseSize, coinstakeSize,
                   popped, fate, order, result>>
    /\ UNCHANGED <<pindexPrevCaller, prev, pindexPrevInner, coinVars>>
    /\ UNCHANGED <<poaVars, minerVars>>

\* Lines 180-252: the coinbase paying the subsidy of the tip read at line
\* 196, the coinstake in proof-of-stake mode, the size budgets.
Begin ==
    /\ bpc = "begin"
    /\ \E cb \in CoinbaseSizes : coinbaseSize' = cb
    /\ vTxFees' = <<0 - 1>>
    /\ vTxSigOps' = <<0 - 1>>
    /\ prev' = Tip
    /\ txNew' = [vout |-> <<TxOut(GetBlockValue(Tip.nHeight),
                                  "scriptPubKeyIn")>>,
                 scriptSig |-> <<>>]
    /\ IF ~fProofOfStake
       THEN /\ vtx' = <<Coinbase>>
            /\ coinbaseTx' = txNew'
            /\ coinstakeTx' = NoTx
            /\ coinstakeSize' = 0
            /\ bpc' = "collect"
            /\ result' = "building"
       ELSE \* nSearchTime >= nLastCoinStakeSearchTime, and CreateCoinStake
            \E searchOk \in BOOLEAN, stake \in {0} \cup CoinstakeSizes :
              IF searchOk /\ stake # 0
              THEN /\ vtx' = <<Coinbase, Coinstake>>
                   /\ coinbaseTx' =
                         [txNew' EXCEPT !.vout[1] = SetEmpty(@)]
                   /\ coinstakeTx' = WalletCoinstake
                   /\ coinstakeSize' = stake
                   /\ bpc' = "collect"
                   /\ result' = "building"
              ELSE /\ stake = 0
                   /\ vtx' = <<Coinbase>>
                   /\ coinbaseTx' = txNew'
                   /\ coinstakeTx' = NoTx
                   /\ coinstakeSize' = 0
                   /\ bpc' = "done"
                   /\ result' = "null"
    /\ nBlockMaxSize' = ClampMaxSize(args.blockmaxsize)
    /\ nBlockPrioritySize' =
          Min(ClampMaxSize(args.blockmaxsize), args.blockprioritysize)
    /\ nBlockMinSize' =
          Min(ClampMaxSize(args.blockmaxsize), args.blockminsize)
    /\ nFees' = 0
    /\ UNCHANGED <<mempool, args, fProofOfStake, keyImages, vecPriority,
                   mapDependers, fSortedByFee, nBlockSize, nBlockTx, popped,
                   fate, order>>
    /\ UNCHANGED <<pindexPrevCaller, pindexPrevOuter, pindexPrevInner, payee,
                   hashPrevBlock, nExtraNonce, lastPrevBlock, hashMerkleRoot,
                   noncedPrevBlock>>
    /\ UNCHANGED <<poaVars, minerVars>>

(***************************************************************************)
(* Lines 254-331: the mempool loop and the initial heap.                   *)
(***************************************************************************)
Collect ==
    /\ bpc = "collect"
    /\ LET st == FilterLoop([keyImages |-> {}, vecPriority |-> {},
                             fate |-> fate], 1) IN
       /\ keyImages' = st.keyImages
       /\ vecPriority' = st.vecPriority
       /\ fate' = st.fate
       /\ bpc' = IF st.vecPriority = {} THEN "finish" ELSE "select"
    /\ mapDependers' = <<>>
    /\ nBlockSize' = CoinbaseReserve
    /\ nBlockTx' = 0
    /\ fSortedByFee' = (nBlockPrioritySize <= 0)
    /\ pindexPrevInner' = Tip
    /\ UNCHANGED <<mempool, args, fProofOfStake, nBlockMaxSize,
                   nBlockPrioritySize, nBlockMinSize, nFees, vtx, vTxFees,
                   vTxSigOps, coinbaseSize, coinstakeSize, popped, order,
                   result>>
    /\ UNCHANGED <<pindexPrevCaller, pindexPrevOuter, prev, coinVars>>
    /\ UNCHANGED <<poaVars, minerVars>>

(***************************************************************************)
(* One iteration of the selection loop, lines 335-413.                     *)
(***************************************************************************)
\* Faulty variant of SkipForSize: > for >=.
SkipForSizeStrict(t) == nBlockSize + mempool[t].size > nBlockMaxSize

SkipForSize(t) == nBlockSize + mempool[t].size >= nBlockMaxSize

SkipFree(t) ==
    /\ fSortedByFee
    /\ feeRateOf(t) < MinRelayTxFee
    /\ nBlockSize + mempool[t].size >= nBlockMinSize

\* Faulty variant of SwitchToFee: > for >= in the priority-size test.
SwitchToFeeStrict(t) ==
    /\ ~fSortedByFee
    /\ \/ nBlockSize + mempool[t].size > nBlockPrioritySize
       \/ ~AllowFree(dPriorityOf(t))

SwitchToFee(t) ==
    /\ ~fSortedByFee
    /\ \/ nBlockSize + mempool[t].size >= nBlockPrioritySize
       \/ ~AllowFree(dPriorityOf(t))

\* Orphans made ready by the admission of hash (lines 402-412).
Released(hash) ==
    IF hash \in DOMAIN mapDependers
    THEN {o \in mapDependers[hash] : o.setDependsOn = {hash}}
    ELSE {}

SelectStep ==
    /\ bpc = "select"
    /\ \E t \in HeapFront(vecPriority, fSortedByFee) :
         LET rest == vecPriority \ {t}
             tx == mempool[t]
         IN
         /\ popped' = t
         /\ IF SkipForSize(t)
            THEN /\ fate' = [fate EXCEPT ![t] = "skipSize"]
                 /\ vecPriority' = rest
                 /\ UNCHANGED <<fSortedByFee, vtx, vTxFees, vTxSigOps,
                                nBlockSize, nBlockTx, nFees, order>>
            ELSE IF SkipFree(t)
            THEN /\ fate' = [fate EXCEPT ![t] = "skipFree"]
                 /\ vecPriority' = rest
                 /\ UNCHANGED <<fSortedByFee, vtx, vTxFees, vTxSigOps,
                                nBlockSize, nBlockTx, nFees, order>>
            ELSE /\ fSortedByFee' = (fSortedByFee \/ SwitchToFee(t))
                 /\ IF ~CheckHaveInputs(CoinsView, tx)
                    THEN /\ fate' = [fate EXCEPT ![t] = "skipInputs"]
                         /\ vecPriority' = rest
                         /\ UNCHANGED <<vtx, vTxFees, vTxSigOps, nBlockSize,
                                        nBlockTx, nFees, order>>
                    ELSE IF ~tx.scriptOk
                    THEN /\ fate' = [fate EXCEPT ![t] = "skipScript"]
                         /\ vecPriority' = rest
                         /\ UNCHANGED <<vtx, vTxFees, vTxSigOps, nBlockSize,
                                        nBlockTx, nFees, order>>
                    ELSE /\ fate' = [fate EXCEPT ![t] = "admitted"]
                         /\ vtx' = Append(vtx, t)
                         /\ vTxFees' = Append(vTxFees, tx.fee)
                         /\ vTxSigOps' = Append(vTxSigOps, 0)
                         /\ nBlockSize' = nBlockSize + tx.size
                         /\ nBlockTx' = nBlockTx + 1
                         /\ nFees' = nFees + tx.fee
                         /\ order' = Append(order,
                                [tx |-> t,
                                 byFee |-> (fSortedByFee \/ SwitchToFee(t)),
                                 sizeBefore |-> nBlockSize])
                         /\ vecPriority' =
                               rest \cup {o.ptx : o \in Released(t)}
         /\ bpc' = IF vecPriority' = {} THEN "finish" ELSE "select"
    /\ UNCHANGED <<mempool, args, fProofOfStake, nBlockMaxSize,
                   nBlockPrioritySize, nBlockMinSize, keyImages,
                   mapDependers, coinbaseSize, coinstakeSize, result>>
    /\ UNCHANGED <<tipVars, coinVars>>
    /\ UNCHANGED <<poaVars, minerVars>>

(***************************************************************************)
(* Lines 415-506: payee, fees, commitment, header, PoS signature.  The     *)
(* wallet calls that can fail (CreateCommitment, MakeShnorrSignature,      *)
(* VerifyShnorrKeyImageTx, SignBlock) make the call return no template.    *)
(***************************************************************************)
\* FillBlockPayee: the masternode and budget code either leaves the
\* transaction alone or splits a payment off its first output.
MasternodePayment == COIN \div 4
FillBlockPayee(tx, blockValue, payment) ==
    IF payment = 0 THEN tx
    ELSE [tx EXCEPT !.vout = <<TxOut(blockValue - payment,
                                     tx.vout[1].scriptPubKey),
                               TxOut(payment, "payee")>>]

\* Faulty variant of CoinbaseFees: the fees go to the coinbase in both modes.
CoinbaseFeesAlways(fPoS, fees) == fees

\* Lines 435-441: what is added to vtx[0].vout[0].nValue.
CoinbaseFees(fPoS, fees) == IF ~fPoS THEN fees ELSE 0

\* IncrementExtraNonce, lines 609-625, on the coinbase tx of a block whose
\* hashPrevBlock is hashPrev and whose predecessor has height nHeightPrev;
\* n is the caller's counter and static the function's static hash.
\* The other transactions of the block, vtx[1..], as the block holds them.
TxOf(id, cs) == IF id = Coinstake THEN cs ELSE mempool[id]
RestOf(ids, cs) == [i \in 1..(Len(ids) - 1) |-> TxOf(ids[i + 1], cs)]

\* BlockMerkleRoot commits to every transaction of the block, in order.
NoRoot == <<>>
BlockMerkleRoot(txs) == <<"merkle", txs>>

\* Serialized size of a script number: the bytes of its magnitude, one more
\* when the top bit of the last byte is taken by the sign.
RECURSIVE NumBytes(_)
NumBytes(v) == IF v = 0 THEN 0 ELSE IF v < 128 THEN 1
               ELSE 1 + NumBytes(v \div 256)

\* Line 620: CScript() << nHeight pushes a small integer as one opcode and
\* any other as its bytes behind a length byte; << CScriptNum(n) always
\* pushes the bytes behind a length byte.
CoinbaseFlagsSize == 0
ScriptSigSize(sig) ==
    (IF sig[1] <= 16 THEN 1 ELSE 1 + NumBytes(sig[1]))
    + (1 + NumBytes(sig[2])) + CoinbaseFlagsSize

\* Faulty variant of ResetExtraNonce: the counter is never reset.
ResetExtraNonceNever(static, hashPrev) == FALSE

\* Line 613.
ResetExtraNonce(static, hashPrev) == static # hashPrev

\* Lines 609-625.  rest is vtx[1..] of the block; assertOk is the assertion
\* of line 621.  The counter is an unsigned 32-bit integer; the loop of
\* BitcoinMiner is followed for MaxExtraNonce rounds, far from its wrap.
IncrementExtraNonce(tx, rest, hashPrev, nHeightPrev, n, static) ==
    LET n1 == (IF ResetExtraNonce(static, hashPrev) THEN 0 ELSE n) + 1
        txCoinbase == [tx EXCEPT !.scriptSig = <<nHeightPrev + 1, n1>>]
    IN
    [tx |-> txCoinbase,
     rest |-> rest,
     nExtraNonce |-> n1,
     hashPrevBlock |-> hashPrev,
     hashMerkleRoot |-> BlockMerkleRoot(<<txCoinbase>> \o rest),
     assertOk |-> ScriptSigSize(txCoinbase.scriptSig) <= 100]

Finish ==
    /\ bpc = "finish"
    /\ \E fail \in {"none", "wallet", "sign"},
          payment \in {0, MasternodePayment} :
         LET nHeight == pindexPrevInner.nHeight + 1
             blockValue == nFees + GetBlockValue(pindexPrevInner.nHeight)
             filled == FillBlockPayee(txNew, blockValue, payment)
             cb == [coinbaseTx EXCEPT
                      !.scriptSig = <<nHeight, 0>>,
                      !.vout[1].nValue =
                          @ + CoinbaseFees(fProofOfStake, nFees)]
             withFees == [coinstakeTx EXCEPT !.vout[3].nValue = @ + nFees]
             merged == [withFees EXCEPT
                          !.vout[2].nValue = @ + withFees.vout[3].nValue,
                          !.vout[3] = SetEmpty(@)]
             inc == IncrementExtraNonce(cb, RestOf(vtx, merged),
                                        pindexPrevInner.hash,
                                        pindexPrevInner.nHeight, 0,
                                        lastPrevBlock)
         IN
         /\ fail = "sign" => fProofOfStake
         /\ payment # 0 => ~fProofOfStake
         /\ IF fProofOfStake
            THEN /\ coinstakeTx' = merged
                 /\ UNCHANGED <<txNew, payee>>
            ELSE /\ payee' = (Len(filled.vout) > 1)
                 /\ txNew' =
                       IF Len(filled.vout) > 1 THEN filled
                       ELSE [filled EXCEPT
                               !.vout[1].nValue = blockValue,
                               !.scriptSig = <<nHeight, 0>>]
                 /\ UNCHANGED coinstakeTx
         /\ IF fail = "wallet"
            THEN /\ coinbaseTx' = cb
                 /\ UNCHANGED <<hashPrevBlock, lastPrevBlock,
                                hashMerkleRoot>>
            ELSE /\ hashPrevBlock' = pindexPrevInner.hash
                 /\ IF fProofOfStake
                    THEN /\ coinbaseTx' = inc.tx
                         /\ lastPrevBlock' = inc.hashPrevBlock
                         /\ hashMerkleRoot' = inc.hashMerkleRoot
                    ELSE /\ coinbaseTx' = cb
                         /\ UNCHANGED <<lastPrevBlock, hashMerkleRoot>>
         /\ result' = IF fProofOfStake /\ fail # "wallet" /\ ~inc.assertOk
                       THEN "aborted"
                       ELSE IF fail = "none" THEN "template" ELSE "null"
    /\ vTxFees' = [vTxFees EXCEPT ![1] = nFees]
    /\ vTxSigOps' = [vTxSigOps EXCEPT ![1] = 1]
    /\ bpc' = "done"
    /\ UNCHANGED <<mempool, args, fProofOfStake, nBlockMaxSize,
                   nBlockPrioritySize, nBlockMinSize, keyImages, vecPriority,
                   mapDependers, fSortedByFee, nBlockSize, nBlockTx, nFees,
                   vtx, coinbaseSize, coinstakeSize, popped, fate, order>>
    /\ UNCHANGED <<tipVars, nExtraNonce, noncedPrevBlock>>
    /\ UNCHANGED <<poaVars, minerVars>>

\* Lines 786-787: BitcoinMiner passes the returned template through
\* IncrementExtraNonce with its own counter and the tip it read itself.
CallerIncrementExtraNonce ==
    /\ bpc = "done"
    /\ result = "template"
    /\ LET inc == IncrementExtraNonce(coinbaseTx, RestOf(vtx, coinstakeTx),
                                      hashPrevBlock,
                                      pindexPrevCaller.nHeight, nExtraNonce,
                                      lastPrevBlock)
       IN /\ coinbaseTx' = inc.tx
          /\ nExtraNonce' = inc.nExtraNonce
          /\ lastPrevBlock' = inc.hashPrevBlock
          /\ hashMerkleRoot' = inc.hashMerkleRoot
          /\ bpc' = IF inc.assertOk THEN "returned" ELSE "aborted"
    /\ noncedPrevBlock' = hashPrevBlock
    /\ UNCHANGED <<mempool, args, fProofOfStake, nBlockMaxSize,
                   nBlockPrioritySize, nBlockMinSize, keyImages, vecPriority,
                   mapDependers, fSortedByFee, nBlockSize, nBlockTx, nFees,
                   vtx, vTxFees, vTxSigOps, coinbaseSize, coinstakeSize,
                   popped, fate, order, result>>
    /\ UNCHANGED <<tipVars, txNew, coinstakeTx, payee, hashPrevBlock>>
    /\ UNCHANGED <<poaVars, minerVars>>

\* Lines 722-787: the loop of BitcoinMiner comes round to the next template.
\* The locals of CreateNewBlock are fresh; the counter of line 717 and the
\* static of IncrementExtraNonce live on.
MaxExtraNonce == 3
NextIteration ==
    /\ bpc = "returned" \/ (bpc = "done" /\ result = "null")
    /\ nExtraNonce < MaxExtraNonce
    /\ bpc' = "start"
    /\ pindexPrevCaller' = NoIndex
    /\ pindexPrevOuter' = NoIndex
    /\ prev' = NoIndex
    /\ pindexPrevInner' = NoIndex
    /\ txNew' = NoTx
    /\ coinbaseTx' = NoTx
    /\ coinstakeTx' = NoTx
    /\ payee' = FALSE
    /\ hashPrevBlock' = NullHash
    /\ hashMerkleRoot' = NoRoot
    /\ nBlockMaxSize' = 0
    /\ nBlockPrioritySize' = 0
    /\ nBlockMinSize' = 0
    /\ keyImages' = {}
    /\ vecPriority' = {}
    /\ mapDependers' = <<>>
    /\ fSortedByFee' = FALSE
    /\ nBlockSize' = 0
    /\ nBlockTx' = 0
    /\ nFees' = 0
    /\ vtx' = <<>>
    /\ vTxFees' = <<>>
    /\ vTxSigOps' = <<>>
    /\ coinbaseSize' = 0
    /\ coinstakeSize' = 0
    /\ popped' = 0
    /\ fate' = [t \in TxIds |-> "pool"]
    /\ order' = <<>>
    /\ result' = "building"
    /\ UNCHANGED <<mempool, args, fProofOfStake, nExtraNonce, lastPrevBlock,
                   noncedPrevBlock>>
    /\ UNCHANGED <<poaVars, minerVars>>

\* Line 787 in another BitcoinMiner thread: its template names the tip, and
\* the static of IncrementExtraNonce, which all threads share, takes that
\* hash.
OtherWorkerIncrementExtraNonce ==
    /\ lastPrevBlock # g_best_block
    /\ lastPrevBlock' = g_best_block
    /\ UNCHANGED <<mempool, args, fProofOfStake, bpc, nBlockMaxSize,
                   nBlockPrioritySize, nBlockMinSize, keyImages, vecPriority,
                   mapDependers, fSortedByFee, nBlockSize, nBlockTx, nFees,
                   vtx, vTxFees, vTxSigOps, coinbaseSize, coinstakeSize,
                   popped, fate, order, result, tipVars>>
    /\ UNCHANGED <<txNew, coinbaseTx, coinstakeTx, payee, hashPrevBlock,
                   nExtraNonce, hashMerkleRoot, noncedPrevBlock>>
    /\ UNCHANGED <<poaVars, minerVars>>


(***************************************************************************)
(* Initial states.  The mempool snapshot and the command-line budgets are  *)
(* the inputs of a build; they are drawn from the sets below.              *)
(***************************************************************************)
In(ki, po) == [keyImage |-> ki, prevout |-> po]

Tx(size, prio, fee, scriptOk, vin) ==
    [kind |-> "standard", final |-> TRUE, size |-> size, prio |-> prio,
     fee |-> fee, scriptOk |-> scriptOk, vin |-> vin]

\* Transactions for the selection loop: one input each, with a key image of
\* its own (10 + id) and a confirmed outpoint.
SelectionTxs(id) ==
    LET vin == <<In(10 + id, 101)>> IN
    { Tx(1000, 1000000000, 0, TRUE, vin),
      Tx(1000, 500000000, 0, TRUE, vin),
      Tx(1000, 0, 20000, TRUE, vin),
      Tx(1000, 0, 0, TRUE, vin),
      Tx(2500, 1000000000, 0, TRUE, vin),
      Tx(2500, 0, 20000, TRUE, vin),
      Tx(1000, 1000000000, 20000, FALSE, vin) }

BlockMaxSizeArgs == {500, 3500, 6000}
BlockPrioritySizeArgs == {0, 2000, 9000}
BlockMinSizeArgs == {0, 9000}

\* Transactions for the mempool filter: 1000 bytes each, paying a fee.
FilterTxs ==
    { Tx(1000, 0, 20000, TRUE, <<In(1, 101)>>),
      Tx(1000, 1000000000, 20000, TRUE, <<In(1, 101)>>),
      Tx(1000, 0, 20000, TRUE, <<In(2, 102)>>),
      Tx(1000, 0, 20000, TRUE, <<In(3, 103)>>),
      Tx(1000, 0, 20000, TRUE, <<In(1, 199)>>),
      Tx(1000, 0, 20000, TRUE, <<In(1, 101), In(2, 102)>>),
      Tx(1000, 0, 20000, TRUE, <<In(2, 102), In(1, 101)>>),
      Tx(1000, 0, 20000, TRUE, <<In(1, 199), In(3, 103)>>),
      Tx(1000, 0, 20000, TRUE, <<In(3, 103), In(1, 199)>>),
      Tx(1000, 0, 20000, TRUE, <<In(1, 101), In(1, 102)>>),
      Tx(1000, 0, 20000, TRUE, <<In(2, 1)>>),
      [Tx(1000, 0, 20000, TRUE, <<In(2, 102)>>) EXCEPT !.final = FALSE] }

InitLocals ==
    /\ bpc = "start"
    /\ pindexPrevCaller = NoIndex
    /\ pindexPrevOuter = NoIndex
    /\ prev = NoIndex
    /\ pindexPrevInner = NoIndex
    /\ txNew = NoTx
    /\ coinbaseTx = NoTx
    /\ coinstakeTx = NoTx
    /\ payee = FALSE
    /\ hashPrevBlock = NullHash
    /\ nExtraNonce = 0
    /\ lastPrevBlock = NullHash
    /\ hashMerkleRoot = NoRoot
    /\ noncedPrevBlock = NullHash
    /\ nBlockMaxSize = 0
    /\ nBlockPrioritySize = 0
    /\ nBlockMinSize = 0
    /\ keyImages = {}
    /\ vecPriority = {}
    /\ mapDependers = <<>>
    /\ fSortedByFee = FALSE
    /\ nBlockSize = 0
    /\ nBlockTx = 0
    /\ nFees = 0
    /\ vtx = <<>>
    /\ vTxFees = <<>>
    /\ vTxSigOps = <<>>
    /\ coinbaseSize = 0
    /\ coinstakeSize = 0
    /\ popped = 0
    /\ fate = [t \in TxIds |-> "pool"]
    /\ order = <<>>
    /\ result = "building"

InitBuild ==
    /\ mempool \in {m \in [TxIds -> UNION {SelectionTxs(i) : i \in TxIds}] :
                      \A i \in TxIds : m[i] \in SelectionTxs(i)}
    /\ args \in [blockmaxsize : BlockMaxSizeArgs,
                 blockprioritysize : BlockPrioritySizeArgs,
                 blockminsize : BlockMinSizeArgs]
    /\ fProofOfStake \in BOOLEAN
    /\ InitLocals

\* No transaction spends an output of itself.
NoSelfSpend(m) ==
    \A t \in TxIds : \A i \in 1..Len(m[t].vin) : m[t].vin[i].prevout # t

InitKI ==
    /\ mempool \in {m \in [TxIds -> FilterTxs] : NoSelfSpend(m)}
    /\ args = [blockmaxsize |-> 9000, blockprioritysize |-> 2000,
               blockminsize |-> 0]
    /\ fProofOfStake \in BOOLEAN
    /\ InitLocals


(***************************************************************************)
(* The active chain.  Heights 0..LAST_POW_BLOCK are proof-of-work blocks;  *)
(* later blocks are proof-of-stake or proof-of-audit blocks.               *)
(***************************************************************************)
BlockAt(h) == chainActive[h + 1]
TipHeight == Len(chainActive) - 1

HashAt(h) == 100 + h
TimeAt(h) == 1000 + h

PoWBlock(h) == [type |-> "pow", hash |-> HashAt(h), nTime |-> TimeAt(h),
                reverifyOk |-> FALSE, posBlocksAudited |-> <<>>]
PoSBlock(h, ok) == [type |-> "pos", hash |-> HashAt(h), nTime |-> TimeAt(h),
                    reverifyOk |-> ok, posBlocksAudited |-> <<>>]
PoABlock(h, audits) == [type |-> "poa", hash |-> HashAt(h),
                        nTime |-> TimeAt(h), reverifyOk |-> FALSE,
                        posBlocksAudited |-> audits]

(***************************************************************************)
(* GetListOfPoSInfo, lines 103-158.                                        *)
(***************************************************************************)
\* Lines 107-113: the backward scan for the previous PoA block.
RECURSIVE FindPrevPoA(_)
FindPrevPoA(nloopIdx) ==
    IF nloopIdx >= START_POA_BLOCK
    THEN IF BlockAt(nloopIdx).type = "poa"
         THEN nloopIdx
         ELSE FindPrevPoA(nloopIdx - 1)
    ELSE nloopIdx

\* Lines 117-122 and 142-147.  chainActive[i] is null above the tip; the
\* summary then holds whatever the null dereference yields.
PoSSummary(i) ==
    IF i <= TipHeight
    THEN [hash |-> BlockAt(i).hash,
          nTime |-> IF BlockAt(i).reverifyOk THEN BlockAt(i).nTime ELSE 0,
          height |-> i]
    ELSE [hash |-> NullHash, nTime |-> 0, height |-> i]

\* Lines 116-123: the first PoA block.
FirstAudit ==
    [k \in 1..MAX_NUM_POS_BLOCKS_AUDITED |-> PoSSummary(LAST_POW_BLOCK + k)]

\* Faulty variant of AuditListFull: the size test of line 150 never breaks.
AuditListNeverFull(audits) == FALSE

\* Line 150.
AuditListFull(audits) == Len(audits) = MAX_NUM_POS_BLOCKS_AUDITED

\* Faulty variant of Audited: a block that fails re-verification is left out.
AuditedIfVerified(h) == BlockAt(h).type = "pos" /\ BlockAt(h).reverifyOk

\* Line 141: the blocks the continuation rule lists.
Audited(h) == BlockAt(h).type = "pos"

\* Lines 136-154.
RECURSIVE NextAudit(_, _, _)
NextAudit(nextAuditHeight, audits, currentHeight) ==
    IF nextAuditHeight > currentHeight THEN audits
    ELSE LET pushed == IF Audited(nextAuditHeight)
                       THEN Append(audits, PoSSummary(nextAuditHeight))
                       ELSE audits
         IN IF AuditListFull(pushed)
            THEN pushed
            ELSE NextAudit(nextAuditHeight + 1, pushed, currentHeight)

Last(seq) == seq[Len(seq)]

GetListOfPoSInfo(currentHeight) ==
    LET nloopIdx == FindPrevPoA(currentHeight) IN
    IF nloopIdx <= START_POA_BLOCK
    THEN [nloopIdx |-> nloopIdx, audits |-> FirstAudit,
          readsDisk |-> FALSE,
          pastTip |-> LAST_POW_BLOCK + MAX_NUM_POS_BLOCKS_AUDITED > TipHeight]
    ELSE LET lastAuditedHeight ==
                 Last(BlockAt(nloopIdx).posBlocksAudited).height
         IN [nloopIdx |-> nloopIdx,
             audits |-> NextAudit(lastAuditedHeight + 1, <<>>, currentHeight),
             readsDisk |-> TRUE,
             pastTip |-> FALSE]

(***************************************************************************)
(* CreateNewPoABlock, lines 509-607.  ReadBlockFromDisk and the wallet's   *)
(* CreateCommitment may fail; a dereference above the tip either ends the  *)
(* process or goes on with the garbage it read.                            *)
(***************************************************************************)
\* Faulty variant of PoAReward: > for >= in the hard-fork test.
PoARewardStrict(n, nHeight) ==
    IF nHeight > HardFork THEN n * (COIN \div 4) ELSE n * (COIN \div 2)

PoAReward(n, nHeight) ==
    IF nHeight >= HardFork THEN n * (COIN \div 4) ELSE n * (COIN \div 2)

NoTemplate == [posBlocksAudited |-> <<>>, hashPrevBlock |-> NullHash,
               hashPrevPoABlock |-> NullHash, nValue |-> 0, nHeight |-> 0]

CreateNewPoABlock ==
    IF TipHeight < START_POA_BLOCK
    THEN /\ poaResult' = "null"
         /\ poaAudits' = <<>>
         /\ poaTemplate' = NoTemplate
         /\ UNCHANGED <<chainActive, buildVars, minerVars>>
    ELSE \E diskOk \in BOOLEAN, derefOk \in BOOLEAN, commitOk \in BOOLEAN :
         LET list == GetListOfPoSInfo(TipHeight) IN
         /\ UNCHANGED <<chainActive, buildVars, minerVars>>
         /\ IF list.readsDisk /\ ~diskOk
            THEN /\ poaResult' = "threw"
                 /\ poaAudits' = <<>>
                 /\ poaTemplate' = NoTemplate
            ELSE IF list.pastTip /\ ~derefOk
            THEN /\ poaResult' = "crash"
                 /\ poaAudits' = <<>>
                 /\ poaTemplate' = NoTemplate
            ELSE /\ poaAudits' = list.audits
                 /\ IF Len(list.audits) = 0 \/ ~commitOk
                    THEN /\ poaResult' = "null"
                         /\ poaTemplate' = NoTemplate
                    ELSE /\ poaResult' = "template"
                         /\ poaTemplate' =
                              [posBlocksAudited |-> list.audits,
                               hashPrevBlock |-> BlockAt(TipHeight).hash,
                               hashPrevPoABlock |->
                                  IF list.nloopIdx >= START_POA_BLOCK
                                  THEN BlockAt(list.nloopIdx).hash
                                  ELSE NullHash,
                               nValue |-> PoAReward(Len(list.audits),
                                                    TipHeight),
                               nHeight |-> TipHeight + 1]

\* The chain processor connects a proof-of-stake block.
ConnectPoSBlock ==
    /\ TipHeight < MaxHeight
    /\ \E ok \in BOOLEAN :
         chainActive' = Append(chainActive, PoSBlock(TipHeight + 1, ok))
    /\ UNCHANGED <<poaAudits, poaResult, poaTemplate, buildVars, minerVars>>

\* The chain processor connects the PoA block of the last template.
ConnectPoABlock ==
    /\ TipHeight < MaxHeight
    /\ poaResult = "template"
    /\ poaTemplate.hashPrevBlock = BlockAt(TipHeight).hash
    /\ chainActive' = Append(chainActive,
                         PoABlock(TipHeight + 1, poaTemplate.posBlocksAudited))
    /\ UNCHANGED <<poaAudits, poaResult, poaTemplate, buildVars, minerVars>>

\* The PoA blocks of the active chain, and the audit list the rule of the
\* protocol gives a PoA block on top of the tip: the first proof-of-stake
\* blocks after the last audited height, at most the maximum.
PoAHeights == {h \in 0..TipHeight : BlockAt(h).type = "poa"}

LastAuditedHeight ==
    IF PoAHeights = {} THEN LAST_POW_BLOCK
    ELSE LET p == CHOOSE h \in PoAHeights : \A g \in PoAHeights : g <= h
         IN Last(BlockAt(p).posBlocksAudited).height

RECURSIVE AuditsFrom(_, _)
AuditsFrom(h, audits) ==
    IF h > TipHeight \/ Len(audits) = MAX_NUM_POS_BLOCKS_AUDITED THEN audits
    ELSE AuditsFrom(h + 1, IF BlockAt(h).type = "pos"
                           THEN Append(audits, PoSSummary(h))
                           ELSE audits)

\* The chain processor connects a PoA block mined by another node; the first
\* height a PoA block may have is START_POA_BLOCK.
ConnectNetworkPoABlock ==
    /\ TipHeight < MaxHeight
    /\ TipHeight + 1 >= START_POA_BLOCK
    /\ LET audits == AuditsFrom(LastAuditedHeight + 1, <<>>) IN
       /\ Len(audits) > 0
       /\ chainActive' = Append(chainActive, PoABlock(TipHeight + 1, audits))
    /\ UNCHANGED <<poaAudits, poaResult, poaTemplate, buildVars, minerVars>>

InitPoA ==
    /\ chainActive = [i \in 1..(LAST_POW_BLOCK + 1) |-> PoWBlock(i - 1)]
    /\ poaAudits = <<>>
    /\ poaResult = "none"
    /\ poaTemplate = NoTemplate

NextPoA ==
    \/ CreateNewPoABlock \/ ConnectPoSBlock \/ ConnectPoABlock
    \/ ConnectNetworkPoABlock

(***************************************************************************)
(* Miner workers.                                                          *)
(***************************************************************************)
Workers == 1..NumWorkers

NoBlock == [hash |-> NullHash, hashPrevBlock |-> NullHash, solved |-> FALSE]

\* Params().MineBlocksOnDemand(): regression-test mode only.
MineBlocksOnDemand == FALSE

\* Faulty variant of ForcePoS: > for >= in the test of line 720.
ForcePoSStrict(w) == wPoS[w] \/ nBestHeight > LAST_POW_BLOCK

\* Line 720: the mode of the iteration.
ForcePoS(w) == wPoS[w] \/ nBestHeight >= LAST_POW_BLOCK

\* ThreadBitcoinMiner (lines 897-906) or ThreadStakeMinter (lines 978-984)
\* enters BitcoinMiner (lines 709-718).
StartWorker(w) ==
    /\ wpc[w] = "idle"
    /\ \E stakeMinter \in BOOLEAN :
         wPoS' = [wPoS EXCEPT
                    ![w] = stakeMinter \/ nBestHeight >= LAST_POW_BLOCK]
    /\ fGeneratePrcycoins' = TRUE
    /\ fLastLoopOrphan' = [fLastLoopOrphan EXCEPT ![w] = FALSE]
    /\ wpc' = [wpc EXCEPT ![w] = "gate"]
    /\ UNCHANGED <<g_best_block, nBestHeight, nextHash, pindexPrev, pblock,
                   site, observed, ret, effectVars, superVars, buildVars,
                   poaVars>>

\* A thread of the supervisor's group starts: ThreadBitcoinMiner, lines
\* 897-906, with the interruption point of line 899 outside the try block,
\* then the call of BitcoinMiner in the mode the tip decides.
ThreadBitcoinMiner(w) ==
    /\ wpc[w] = "spawned"
    /\ IF interrupted[w]
       THEN /\ wpc' = [wpc EXCEPT ![w] = "exited"]
            /\ UNCHANGED wPoS
       ELSE /\ wPoS' = [wPoS EXCEPT ![w] = nBestHeight >= LAST_POW_BLOCK]
            /\ wpc' = [wpc EXCEPT ![w] = "entered"]
    /\ UNCHANGED <<chainVars, fLastLoopOrphan, pindexPrev, pblock, site,
                   observed, ret, effectVars, superVars, buildVars, poaVars>>

\* BitcoinMiner, lines 709-718: the thread sets the enable flag itself, with
\* no interruption point between line 899 and the top of the loop.
BitcoinMinerEntry(w) ==
    /\ wpc[w] = "entered"
    /\ fGeneratePrcycoins' = TRUE
    /\ fLastLoopOrphan' = [fLastLoopOrphan EXCEPT ![w] = FALSE]
    /\ wpc' = [wpc EXCEPT ![w] = "gate"]
    /\ UNCHANGED <<g_best_block, nBestHeight, nextHash, wPoS, pindexPrev,
                   pblock, site, observed, ret, effectVars, superVars,
                   buildVars, poaVars>>

\* The top of the worker loop, lines 719-768.  Whether the staking
\* prerequisites hold (peers, unlocked wallet, mintable coins, balance,
\* sync, hash interval) is an input of the step; when they do not, the
\* worker sleeps (lines 732, 756), and a sleep is an interruption point.
Gate(w) ==
    /\ wpc[w] = "gate"
    /\ LET pos == ForcePoS(w) IN
       IF ~(fGeneratePrcycoins \/ wPoS[w])
       THEN /\ wpc' = [wpc EXCEPT ![w] = "exited"]
            /\ UNCHANGED wPoS
       ELSE /\ wPoS' = [wPoS EXCEPT ![w] = pos]
            /\ IF pos
               THEN \E ready \in BOOLEAN :
                      wpc' = [wpc EXCEPT ![w] =
                                IF ~ready /\ interrupted[w] THEN "exited"
                                ELSE IF ~fGeneratePrcycoins THEN "exited"
                                ELSE IF ready THEN "build" ELSE "gate"]
               ELSE wpc' = [wpc EXCEPT ![w] =
                              IF nBestHeight - 6 > LAST_POW_BLOCK
                              THEN "exited" ELSE "build"]
    /\ UNCHANGED <<chainVars, fLastLoopOrphan, pindexPrev, pblock, site,
                   observed, ret, effectVars, superVars, buildVars, poaVars>>

\* Lines 773-805: read the tip, build a template on it, IncrementExtraNonce;
\* in proof-of-stake mode sign the block and go on to submit it.  The
\* outcome is an input: GenerateAddress fails (line 640), CreateNewBlock
\* returns no template, SignBlock fails twice (line 799), or there is a
\* block.  A proof-of-work block after LAST_POW_BLOCK is refused after a
\* sleep (line 649), and CreateNewBlock in proof-of-stake mode starts with
\* an interruption point (line 208).
Build(w) ==
    /\ wpc[w] = "build"
    /\ \E outcome \in {"noaddr", "none", "unsigned", "block"} :
         LET late == ~wPoS[w] /\ nBestHeight + 1 > LAST_POW_BLOCK IN
         IF outcome = "noaddr"
         THEN /\ wpc' = [wpc EXCEPT ![w] = "gate"]
              /\ UNCHANGED <<pblock, nextHash, pindexPrev, site>>
         ELSE IF (wPoS[w] \/ late) /\ interrupted[w]
         THEN /\ wpc' = [wpc EXCEPT ![w] = "exited"]
              /\ UNCHANGED <<pblock, nextHash, pindexPrev, site>>
         ELSE IF late \/ outcome = "none"
         THEN /\ wpc' = [wpc EXCEPT ![w] = "gate"]
              /\ UNCHANGED <<pblock, nextHash, pindexPrev, site>>
         ELSE IF outcome = "unsigned"
         THEN /\ wPoS[w]
              /\ wpc' = [wpc EXCEPT ![w] = "gate"]
              /\ UNCHANGED <<pblock, nextHash, pindexPrev, site>>
         ELSE /\ nextHash <= MaxHash
              /\ nextHash' = nextHash + 1
              /\ pblock' = [pblock EXCEPT ![w] =
                              [hash |-> nextHash,
                               hashPrevBlock |-> g_best_block,
                               solved |-> FALSE]]
              /\ pindexPrev' = [pindexPrev EXCEPT ![w] = g_best_block]
              /\ IF wPoS[w]
                 THEN /\ site' = [site EXCEPT ![w] = "pos"]
                      /\ wpc' = [wpc EXCEPT ![w] = "pbf_check"]
                 ELSE /\ wpc' = [wpc EXCEPT ![w] = "search"]
                      /\ UNCHANGED site
    /\ UNCHANGED <<g_best_block, nBestHeight, fGeneratePrcycoins, wPoS,
                   fLastLoopOrphan, observed, ret, effectVars, superVars,
                   buildVars, poaVars>>

\* Lines 825-849: the nonce loop up to a solution or the next heartbeat.
\* A block that met the target still meets it when hashed again unchanged.
Search(w) ==
    /\ wpc[w] = "search"
    /\ \E found \in BOOLEAN :
         IF pblock[w].solved \/ found
         THEN /\ pblock' = [pblock EXCEPT ![w].solved = TRUE]
              /\ site' = [site EXCEPT ![w] = "pow1"]
              /\ wpc' = [wpc EXCEPT ![w] = "pbf_check"]
         ELSE /\ wpc' = [wpc EXCEPT ![w] = "heartbeat"]
              /\ UNCHANGED <<pblock, site>>
    /\ UNCHANGED <<chainVars, wPoS, fLastLoopOrphan, pindexPrev, observed,
                   ret, effectVars, superVars, buildVars, poaVars>>

\* Lines 851-893: the interruption point of line 876; then leave the search
\* when the tip moved (or peers are gone, the nonce range is used up, the
\* mempool changed); otherwise update the time, which changes the hash, and
\* search on.
Heartbeat(w) ==
    /\ wpc[w] = "heartbeat"
    /\ \E otherBreak \in BOOLEAN :
         IF interrupted[w]
         THEN /\ wpc' = [wpc EXCEPT ![w] = "exited"]
              /\ pblock' = [pblock EXCEPT ![w] = NoBlock]
              /\ pindexPrev' = [pindexPrev EXCEPT ![w] = NullHash]
         ELSE IF pindexPrev[w] # g_best_block \/ otherBreak
         THEN /\ wpc' = [wpc EXCEPT ![w] = "gate"]
              /\ pblock' = [pblock EXCEPT ![w] = NoBlock]
              /\ pindexPrev' = [pindexPrev EXCEPT ![w] = NullHash]
         ELSE /\ wpc' = [wpc EXCEPT ![w] = "search"]
              /\ pblock' = [pblock EXCEPT ![w].solved = FALSE]
              /\ UNCHANGED pindexPrev
    /\ UNCHANGED <<chainVars, wPoS, fLastLoopOrphan, site, observed, ret,
                   effectVars, superVars, buildVars, poaVars>>

(***************************************************************************)
(* ProcessBlockFound, lines 668-701.                                       *)
(***************************************************************************)
\* Faulty variants of IsStale: the test is dropped; the block is compared with the
\* tip the worker read when it built the block, not with the best block.
IsStaleNever(w) == FALSE
IsStaleAtBuild(w) == pblock[w].hashPrevBlock # pindexPrev[w]

\* Line 675.
IsStale(w) == pblock[w].hashPrevBlock # g_best_block

\* Lines 672-689: the staleness test under g_best_block_mutex; when the
\* block is not stale, KeepKey, mapRequestCount and the BlockFound signal.
PBF_Check(w) ==
    /\ wpc[w] = "pbf_check"
    /\ observed' = [observed EXCEPT ![w] = g_best_block]
    /\ IF IsStale(w)
       THEN /\ ret' = [ret EXCEPT ![w] = "false"]
            /\ wpc' = [wpc EXCEPT ![w] = "pbf_ret"]
            /\ UNCHANGED <<keptKeys, mapRequestCount, blockFound>>
       ELSE /\ ret' = [ret EXCEPT ![w] = "none"]
            /\ keptKeys' = keptKeys \cup {pblock[w].hash}
            /\ mapRequestCount' = mapRequestCount \cup {pblock[w].hash}
            /\ blockFound' = blockFound \cup {pblock[w].hash}
            /\ wpc' = [wpc EXCEPT ![w] = "pbf_process"]
    /\ UNCHANGED <<chainVars, wPoS, fLastLoopOrphan, pindexPrev, pblock, site,
                   processed, inventory, superVars, buildVars, poaVars>>

\* Lines 691-700: ProcessNewBlock, then PushInventory to every peer.  The
\* chain processor accepts or rejects the block; an accepted block that
\* extends the best block becomes the best block.
PBF_Process(w) ==
    /\ wpc[w] = "pbf_process"
    /\ processed' = processed \cup {pblock[w].hash}
    /\ \E accepted \in BOOLEAN :
         /\ IF accepted /\ pblock[w].hashPrevBlock = g_best_block
            THEN /\ g_best_block' = pblock[w].hash
                 /\ nBestHeight' = nBestHeight + 1
            ELSE UNCHANGED <<g_best_block, nBestHeight>>
         /\ IF accepted
            THEN /\ inventory' = inventory \cup {pblock[w].hash}
                 /\ ret' = [ret EXCEPT ![w] = "true"]
            ELSE /\ ret' = [ret EXCEPT ![w] = "false"]
                 /\ UNCHANGED inventory
    /\ wpc' = [wpc EXCEPT ![w] = "pbf_ret"]
    /\ UNCHANGED <<nextHash, fGeneratePrcycoins, wPoS, fLastLoopOrphan,
                   pindexPrev, pblock, site, observed, keptKeys,
                   mapRequestCount, blockFound, superVars, buildVars,
                   poaVars>>

\* The caller after ProcessBlockFound returned: lines 805-810 (PoS),
\* line 830 (first PoW call, result unused), lines 831-843 (second PoW call).
AfterSubmit(w) ==
    /\ wpc[w] = "pbf_ret"
    /\ observed' = [observed EXCEPT ![w] = NullHash]
    /\ ret' = [ret EXCEPT ![w] = "none"]
    /\ IF site[w] = "pos"
       THEN /\ wpc' = [wpc EXCEPT ![w] = "gate"]
            /\ site' = [site EXCEPT ![w] = "none"]
            /\ pblock' = [pblock EXCEPT ![w] = NoBlock]
            /\ pindexPrev' = [pindexPrev EXCEPT ![w] = NullHash]
            /\ UNCHANGED fLastLoopOrphan
       ELSE IF site[w] = "pow1"
       THEN /\ site' = [site EXCEPT ![w] = "pow2"]
            /\ wpc' = [wpc EXCEPT ![w] = "pbf_check"]
            /\ UNCHANGED <<fLastLoopOrphan, pblock, pindexPrev>>
       ELSE IF ret[w] = "false"
       THEN /\ fLastLoopOrphan' = [fLastLoopOrphan EXCEPT ![w] = TRUE]
            /\ wpc' = [wpc EXCEPT ![w] = "search"]
            /\ site' = [site EXCEPT ![w] = "none"]
            /\ UNCHANGED <<pblock, pindexPrev>>
       ELSE /\ wpc' = [wpc EXCEPT ![w] =
                         IF MineBlocksOnDemand THEN "exited" ELSE "heartbeat"]
            /\ site' = [site EXCEPT ![w] = "none"]
            /\ UNCHANGED <<fLastLoopOrphan, pblock, pindexPrev>>
    /\ UNCHANGED <<chainVars, wPoS, effectVars, superVars, buildVars,
                   poaVars>>

\* A block of another node becomes the best block; the chain processor
\* holds cs_main, which CreateNewBlock holds over lines 254-504.
NetworkBlock ==
    /\ nextHash <= MaxHash
    /\ bpc \notin {"select", "finish"}
    /\ g_best_block' = nextHash
    /\ nextHash' = nextHash + 1
    /\ nBestHeight' = nBestHeight + 1
    /\ UNCHANGED <<fGeneratePrcycoins, workerVars, effectVars, superVars,
                   buildVars, poaVars>>

\* The chain processor connects several blocks of other nodes in a row.
SyncSteps == {1, LAST_POW_BLOCK + 7}
ChainSync ==
    /\ nextHash <= MaxHash
    /\ bpc \notin {"select", "finish"}
    /\ \E k \in SyncSteps :
         /\ nBestHeight + k <= MaxHeight
         /\ nBestHeight' = nBestHeight + k
    /\ g_best_block' = nextHash
    /\ nextHash' = nextHash + 1
    /\ UNCHANGED <<fGeneratePrcycoins, workerVars, effectVars, superVars,
                   buildVars, poaVars>>

\* Params().DefaultMinerThreads(), or boost::thread::hardware_concurrency().
DefaultMinerThreads == 1

\* The thread counts GeneratePrcycoins is called with.
ThreadArgs == (0 - 1)..NumWorkers

\* The next n threads to be created.
NewThreads(n) ==
    {w \in Workers :
       /\ wpc[w] = "idle"
       /\ Cardinality({v \in Workers : v < w /\ wpc[v] = "idle"}) < n}

\* GeneratePrcycoins, lines 950-975: interrupt_all on the old group and
\* delete it (the threads are not joined: deleting the group detaches
\* them), then create the new group.
GeneratePrcycoins(fGenerate, nThreadsArg) ==
    LET nThreads == IF nThreadsArg < 0 THEN DefaultMinerThreads
                    ELSE nThreadsArg
    IN
    /\ fGeneratePrcycoins' = fGenerate
    /\ interrupted' = [w \in Workers |->
                         interrupted[w] \/ w \in minerThreads]
    /\ IF nThreads = 0 \/ ~fGenerate
       THEN /\ minerThreads' = {}
            /\ UNCHANGED wpc
       ELSE /\ Cardinality(NewThreads(nThreads)) = nThreads
            /\ minerThreads' = NewThreads(nThreads)
            /\ wpc' = [w \in Workers |->
                         IF w \in NewThreads(nThreads) THEN "spawned"
                         ELSE wpc[w]]
    /\ UNCHANGED <<g_best_block, nBestHeight, nextHash, wPoS,
                   fLastLoopOrphan, pindexPrev, pblock, site, observed, ret,
                   effectVars, buildVars, poaVars>>

SetGenerate ==
    \E fGenerate \in BOOLEAN, nThreadsArg \in ThreadArgs :
      GeneratePrcycoins(fGenerate, nThreadsArg)

InitMiner ==
    /\ g_best_block = 1
    /\ nBestHeight \in {0, LAST_POW_BLOCK}
    /\ nextHash = 2
    /\ fGeneratePrcycoins = FALSE
    /\ wpc = [w \in Workers |-> "idle"]
    /\ wPoS = [w \in Workers |-> FALSE]
    /\ fLastLoopOrphan = [w \in Workers |-> FALSE]
    /\ pindexPrev = [w \in Workers |-> NullHash]
    /\ pblock = [w \in Workers |-> NoBlock]
    /\ site = [w \in Workers |-> "none"]
    /\ observed = [w \in Workers |-> NullHash]
    /\ ret = [w \in Workers |-> "none"]
    /\ keptKeys = {}
    /\ mapRequestCount = {}
    /\ blockFound = {}
    /\ processed = {}
    /\ inventory = {}
    /\ minerThreads = {}
    /\ interrupted = [w \in Workers |-> FALSE]

InitMinerIdle == InitMiner /\ nBestHeight = 0

(***************************************************************************)
(* Specifications.                                                         *)
(***************************************************************************)
InitBuildIdle ==
    /\ mempool = [t \in TxIds |-> Tx(1000, 0, 20000, TRUE, <<In(t, 101)>>)]
    /\ args = [blockmaxsize |-> 9000, blockprioritysize |-> 2000,
               blockminsize |-> 0]
    /\ fProofOfStake = FALSE
    /\ InitLocals

\* A build over a mempool that exercises the selection loop.
Init == InitBuild /\ InitPoA /\ InitMinerIdle
Next ==
    \/ EnterBuild \/ ReadTip \/ Begin \/ Collect \/ SelectStep \/ Finish
    \/ CallerIncrementExtraNonce
Spec == Init /\ [][Next]_vars

\* A build over a mempool that exercises the key-image filter.
InitFilter == InitKI /\ InitPoA /\ InitMinerIdle
SpecKI == InitFilter /\ [][Next]_vars

\* The PoA builder over a growing chain.
InitAudit == InitBuildIdle /\ InitPoA /\ InitMinerIdle
SpecPoA == InitAudit /\ [][NextPoA]_vars

\* Miner workers submitting blocks while the network advances the tip.
InitSubmit == InitBuildIdle /\ InitPoA /\ InitMiner
NextSubmit ==
    \/ \E w \in Workers :
          \/ StartWorker(w) \/ Gate(w) \/ Build(w) \/ Search(w)
          \/ Heartbeat(w) \/ PBF_Check(w) \/ PBF_Process(w)
          \/ AfterSubmit(w)
    \/ NetworkBlock
SpecSubmit == InitSubmit /\ [][NextSubmit]_vars

\* The step of worker w, whatever it is.
WorkerStep(w) ==
    \/ ThreadBitcoinMiner(w) \/ BitcoinMinerEntry(w)
    \/ Gate(w) \/ Build(w) \/ Search(w)
    \/ Heartbeat(w) \/ PBF_Check(w) \/ PBF_Process(w) \/ AfterSubmit(w)

\* The supervisor starting and stopping groups of workers.  Every thread
\* that can take a step eventually takes one.
NextSuper ==
    \/ SetGenerate
    \/ \E w \in Workers :
          \/ ThreadBitcoinMiner(w) \/ BitcoinMinerEntry(w)
          \/ Gate(w) \/ Build(w) \/ Search(w)
          \/ Heartbeat(w) \/ PBF_Check(w) \/ PBF_Process(w)
          \/ AfterSubmit(w)
    \/ NetworkBlock
SpecSuper ==
    /\ InitSubmit
    /\ [][NextSuper]_vars
    /\ \A w \in Workers : WF_vars(WorkerStep(w))

\* Miner workers while the chain grows from the genesis block past
\* LAST_POW_BLOCK.
NextGate ==
    \/ \E w \in Workers :
          \/ StartWorker(w) \/ Gate(w) \/ Build(w) \/ Search(w)
          \/ Heartbeat(w) \/ PBF_Check(w) \/ PBF_Process(w)
          \/ AfterSubmit(w)
    \/ ChainSync
InitGate == InitSubmit /\ nBestHeight = 0
SpecGate == InitGate /\ [][NextGate]_vars

\* A build while the network advances the tip.
TipTxs(id) ==
    { Tx(1000, 0, 20000, TRUE, <<In(10 + id, 101)>>),
      Tx(1000, 1000000000, 0, TRUE, <<In(10 + id, 101)>>) }
InitTip ==
    /\ mempool \in {m \in [TxIds -> UNION {TipTxs(i) : i \in TxIds}] :
                      \A i \in TxIds : m[i] \in TipTxs(i)}
    /\ args = [blockmaxsize |-> 9000, blockprioritysize |-> 2000,
               blockminsize |-> 0]
    /\ fProofOfStake \in BOOLEAN
    /\ InitLocals
    /\ InitPoA
    /\ InitMiner
NextTip ==
    \/ EnterBuild \/ ReadTip \/ Begin \/ Collect \/ SelectStep \/ Finish
    \/ CallerIncrementExtraNonce
    \/ NetworkBlock
SpecTip == InitTip /\ [][NextTip]_vars

\* One worker building template after template while the tip advances and
\* another worker passes its own templates through IncrementExtraNonce.
NonceTxs == [i \in TxIds |-> Tx(1000, 0, 20000, TRUE, <<In(10 + i, 101)>>)]
InitNonce ==
    /\ mempool = NonceTxs
    /\ args = [blockmaxsize |-> 9000, blockprioritysize |-> 2000,
               blockminsize |-> 0]
    /\ fProofOfStake \in BOOLEAN
    /\ InitLocals
    /\ InitPoA
    /\ InitMiner
NextNonce ==
    \/ EnterBuild \/ ReadTip \/ Begin \/ Collect \/ SelectStep \/ Finish
    \/ CallerIncrementExtraNonce
    \/ NextIteration
    \/ OtherWorkerIncrementExtraNonce
    \/ NetworkBlock
SpecNonce == InitNonce /\ [][NextNonce]_vars

(***************************************************************************)
(* Properties of the transaction filter and the selection loop.            *)
(***************************************************************************)
Range(seq) == {seq[i] : i \in 1..Len(seq)}

KeyImagesOf(t) ==
    {mempool[t].vin[i].keyImage : i \in 1..Len(mempool[t].vin)}

MempoolPositions == {p \in 1..Len(vtx) : vtx[p] \in TxIds}

EntrySize(e) ==
    IF e = Coinbase THEN coinbaseSize
    ELSE IF e = Coinstake THEN coinstakeSize
    ELSE mempool[e].size

RECURSIVE SumSizes(_, _)
SumSizes(seq, i) ==
    IF i > Len(seq) THEN 0 ELSE EntrySize(seq[i]) + SumSizes(seq, i + 1)

HasOffendingInput(t) ==
    \E i \in 1..Len(mempool[t].vin) :
       \/ IsSpentKeyImage(mempool[t].vin[i].keyImage)
       \/ ContainsOutPoint(mempool[t].vin[i].prevout)

\* C1: a mempool transaction with an input whose key image is spent on-chain
\* or whose outpoint is in the invalid-outputs set, at whatever position
\* among its inputs, is never pushed into the candidate heap and never
\* appears in vtx.
C1_OffendingInputExcluded ==
    \A t \in TxIds :
       HasOffendingInput(t) => t \notin vecPriority /\ t \notin Range(vtx)

\* C2: in every returned template no key image occurs twice across the
\* inputs of the mempool transactions in vtx, neither within one transaction
\* nor in two different ones.
C2_KeyImagesUnique ==
    result = "template" =>
       \A p, q \in MempoolPositions :
          \A i \in 1..Len(mempool[vtx[p]].vin),
             j \in 1..Len(mempool[vtx[q]].vin) :
             (p # q \/ i # j) =>
                mempool[vtx[p]].vin[i].keyImage # mempool[vtx[q]].vin[j].keyImage

\* A template with two mempool transactions, built from a mempool in which
\* another transaction was turned away for a duplicate key image.
C2_Witness ==
    /\ result = "template"
    /\ Cardinality(MempoolPositions) >= 2
    /\ \E t \in TxIds : fate[t] = "duplicate"

\* C3: in every returned template, PoW or PoS, the serialized sizes of all
\* transactions of vtx, coinbase and coinstake included, sum to at most
\* nBlockMaxSize.
C3_TemplateWithinMaxSize ==
    result = "template" => SumSizes(vtx, 1) <= nBlockMaxSize

C4_SizeWithinBudget ==
    bpc \in {"select", "finish"} =>
       /\ nBlockSize >= CoinbaseReserve
       /\ nBlockSize <= nBlockMaxSize

C4_StartsAtReserve == bpc = "collect" => nBlockSize' = CoinbaseReserve

C4_OversizeSkipped ==
    (/\ bpc = "select"
     /\ popped' \in TxIds
     /\ nBlockSize + mempool[popped'].size >= nBlockMaxSize)
    => (nBlockSize' = nBlockSize /\ nFees' = nFees /\ vtx' = vtx)

\* C4: the running size nBlockSize starts the selection loop at 1000 and
\* stays at most nBlockMaxSize after every admission; a popped transaction
\* with nBlockSize + nTxSize >= nBlockMaxSize is skipped and leaves
\* nBlockSize, nFees and vtx unchanged.
C4_RunningSize ==
    /\ [](C4_SizeWithinBudget)
    /\ [][C4_StartsAtReserve /\ C4_OversizeSkipped]_vars

\* A finished build that admitted a transaction and skipped another one whose
\* size would have brought the running size to exactly nBlockMaxSize.
C4_Witness ==
    /\ bpc = "done"
    /\ nBlockSize > CoinbaseReserve
    /\ \E t \in TxIds :
          /\ fate[t] = "skipSize"
          /\ nBlockSize + mempool[t].size = nBlockMaxSize

IsT1(t) ==
    /\ mempool[t].size = 1000 /\ mempool[t].prio = 1000000000
    /\ mempool[t].fee = 0 /\ mempool[t].scriptOk

IsT2(t) ==
    /\ mempool[t].size = 1000 /\ mempool[t].prio = 500000000
    /\ mempool[t].fee = 0 /\ mempool[t].scriptOk

IsT3(t) ==
    /\ mempool[t].size = 1000 /\ mempool[t].prio = 0
    /\ mempool[t].fee = 20000 /\ mempool[t].scriptOk

\* Scenario S2 at the end of a build that returned a template.
ScenarioS2(t1, t2, t3) ==
    /\ TxIds = {t1, t2, t3}
    /\ IsT1(t1) /\ IsT2(t2) /\ IsT3(t3)
    /\ nBlockPrioritySize = 2000
    /\ bpc = "done"
    /\ result = "template"

AdmittedTxs == [i \in 1..Len(order) |-> order[i].tx]

C7_ScenarioOutcome ==
    \A t1, t2, t3 \in TxIds :
       ScenarioS2(t1, t2, t3) =>
          /\ Len(order) >= 2
          /\ order[1].tx = t1 /\ order[1].byFee
          /\ order[2].tx = t3 /\ order[2].byFee
          /\ IF 4000 < nBlockMaxSize /\ 4000 < nBlockMinSize
             THEN AdmittedTxs = <<t1, t3, t2>>
             ELSE AdmittedTxs = <<t1, t3>>

C7_SwitchOnlyAtHead ==
    bpc = "select" =>
       /\ (fSortedByFee => fSortedByFee')
       /\ (~fSortedByFee /\ fSortedByFee') =>
             \/ nBlockSize + mempool[popped'].size >= nBlockPrioritySize
             \/ ~AllowFree(mempool[popped'].prio)

PassesOtherFilters(t) ==
    /\ mempool[t].kind = "standard"
    /\ mempool[t].final
    /\ ~HasOffendingInput(t)
    /\ CheckHaveInputs(CoinsView, mempool[t])

\* C8: when two admissible mempool transactions share a key image, the one
\* higher in the active comparator order is admitted and the other is not,
\* whatever the mempool map's iteration order; and after the build the
\* key-image set holds exactly the key images of the admitted candidates.
C8_HeadWinsDuplicate ==
    (bpc = "done" /\ result = "template") =>
       /\ \A a, b \in TxIds :
             (/\ a # b
              /\ \A t \in TxIds : t \in {a, b} \/ ~PassesOtherFilters(t)
              /\ PassesOtherFilters(a) /\ PassesOtherFilters(b)
              /\ Len(mempool[a].vin) = 1 /\ Len(mempool[b].vin) = 1
              /\ KeyImagesOf(a) = KeyImagesOf(b)
              /\ mempool[a].scriptOk /\ mempool[b].scriptOk
              /\ TxPriorityCompare(nBlockPrioritySize <= 0, a, b))
             => (fate[b] = "admitted" /\ fate[a] # "admitted")
       /\ keyImages = UNION {KeyImagesOf(t) : t \in Range(AdmittedTxs)}

DependsOnlyOn(x, y) ==
    /\ x # y
    /\ Len(mempool[x].vin) = 1
    /\ mempool[x].vin[1].prevout = y

PositionOf(t) == CHOOSE p \in 1..Len(vtx) : vtx[p] = t

\* C9: if mempool transaction X spends only an output of mempool transaction
\* Y, both are otherwise admissible and fit the size budget, then a build
\* that admits Y also admits X, after Y in vtx.
C9_OrphanResolved ==
    (bpc = "done" /\ result = "template") =>
       \A x, y \in TxIds :
          (/\ DependsOnlyOn(x, y)
           /\ mempool[x].kind = "standard"
           /\ mempool[x].final
           /\ mempool[x].scriptOk
           /\ ~HasOffendingInput(x)
           /\ \A t \in TxIds \ {x} : KeyImagesOf(t) \cap KeyImagesOf(x) = {}
           /\ nBlockSize + mempool[x].size < nBlockMaxSize
           /\ fate[y] = "admitted")
          => (x \in Range(vtx) /\ PositionOf(y) < PositionOf(x))

(***************************************************************************)
(* Properties of ProcessBlockFound.                                        *)
(***************************************************************************)
StaleCallReturns(w) ==
    (/\ wpc[w] = "pbf_check"
     /\ wpc'[w] # "pbf_check"
     /\ pblock[w].hashPrevBlock # g_best_block)
    => /\ wpc'[w] = "pbf_ret"
       /\ ret'[w] = "false"
       /\ UNCHANGED effectVars

\* C5: a call of ProcessBlockFound with a block whose hashPrevBlock differs
\* from the best-block hash returns failure, and the call keeps no reserve
\* key, writes no request counter, raises no block-found signal, does not
\* call ProcessNewBlock and broadcasts no inventory.
C5_StaleHasNoEffects == [][\A w \in Workers : StaleCallReturns(w)]_vars

\* A call that returned stale for a block built on a tip the network then
\* replaced, with none of the five effects applied to that block.
C5_Witness ==
    \E w \in Workers :
       /\ wpc[w] = "pbf_ret"
       /\ ret[w] = "false"
       /\ pblock[w].hash # NullHash
       /\ observed[w] # pblock[w].hashPrevBlock
       /\ pblock[w].hash \notin
             keptKeys \cup mapRequestCount \cup blockFound \cup processed
                      \cup inventory

HandOffOnBestBlock(w) ==
    (wpc[w] = "pbf_process" /\ wpc'[w] # "pbf_process")
    => pblock[w].hashPrevBlock = g_best_block

\* C6 as stated: ProcessNewBlock is never invoked on a block whose
\* hashPrevBlock differs from the best-block hash at the moment of the
\* invocation.
C6_AtomicHandOff == [][\A w \in Workers : HandOffOnBestBlock(w)]_vars

\* C6 as amended: ProcessNewBlock is invoked only on a block whose
\* hashPrevBlock equalled the best-block hash when the call tested it under
\* g_best_block_mutex; the mutex is released before the hand-off, so the best
\* block may have changed by the time ProcessNewBlock runs.
C6_HandOffAfterCheck ==
    \A w \in Workers :
       wpc[w] = "pbf_process" =>
          /\ pblock[w].hashPrevBlock = observed[w]
          /\ pblock[w].hash \in keptKeys \cap mapRequestCount \cap blockFound

\* A worker about to call ProcessNewBlock on a block that passed the test,
\* after the best block changed.
C6_Witness ==
    \E w \in Workers :
       /\ wpc[w] = "pbf_process"
       /\ pblock[w].hashPrevBlock = observed[w]
       /\ g_best_block # pblock[w].hashPrevBlock

(***************************************************************************)
(* Properties of the PoA builder.                                          *)
(***************************************************************************)
AuditListWellFormed(a) ==
    /\ 0 < Len(a)
    /\ Len(a) <= MAX_NUM_POS_BLOCKS_AUDITED
    /\ \A i \in 1..(Len(a) - 1) : a[i].height < a[i + 1].height

EmptyListNoTemplate ==
    (/\ chainActive' = chainActive
     /\ TipHeight >= START_POA_BLOCK
     /\ Len(GetListOfPoSInfo(TipHeight).audits) = 0)
    => poaResult' # "template"

\* C10: in every template returned by CreateNewPoABlock, posBlocksAudited is
\* non-empty, has at most MAX_NUM_POS_BLOCKS_AUDITED entries and strictly
\* increasing heights; when GetListOfPoSInfo yields an empty list,
\* CreateNewPoABlock returns no template.
C10_AuditList ==
    /\ [](poaResult = "template" =>
             AuditListWellFormed(poaTemplate.posBlocksAudited))
    /\ [][EmptyListNoTemplate]_vars

\* A template whose audit list was filled to the maximum by the scan that
\* continues after the previous PoA block, with blocks left unaudited.
C10_Witness ==
    /\ poaResult = "template"
    /\ poaTemplate.hashPrevPoABlock # NullHash
    /\ Len(poaTemplate.posBlocksAudited) = MAX_NUM_POS_BLOCKS_AUDITED
    /\ Last(poaTemplate.posBlocksAudited).height < poaTemplate.nHeight - 1

HeightsOf(a) == [i \in 1..Len(a) |-> a[i].height]

\* A step of CreateNewPoABlock that returned to its caller.
PoAReturned ==
    /\ chainActive' = chainActive
    /\ TipHeight >= START_POA_BLOCK
    /\ poaResult' \in {"null", "template"}

\* A step made by a call of CreateNewPoABlock, however the call ended.
PoACalled ==
    /\ chainActive' = chainActive
    /\ TipHeight >= START_POA_BLOCK

NoPoAFrom(h) == \A g \in h..TipHeight : BlockAt(g).type # "poa"

GenesisHeights ==
    [k \in 1..MAX_NUM_POS_BLOCKS_AUDITED |-> LAST_POW_BLOCK + k]

\* C11: when the backward scan from the tip finds no PoA block at a height
\* >= START_POA_BLOCK, GetListOfPoSInfo appends summaries for exactly the
\* heights LAST_POW_BLOCK+1 .. LAST_POW_BLOCK+MAX_NUM_POS_BLOCKS_AUDITED, in
\* ascending order.
C11_GenesisAudit ==
    [][(PoACalled /\ NoPoAFrom(START_POA_BLOCK))
          => HeightsOf(poaAudits') = GenesisHeights]_vars

PriorPoA == CHOOSE p \in PoAHeights : \A g \in PoAHeights : g <= p

UnauditedPoS(L) == {h \in (L + 1)..TipHeight : BlockAt(h).type = "pos"}

FirstUnaudited(L) ==
    {h \in UnauditedPoS(L) :
        Cardinality({g \in UnauditedPoS(L) : g < h}) < MAX_NUM_POS_BLOCKS_AUDITED}

IsContinuation(a, L) ==
    /\ {a[i].height : i \in 1..Len(a)} = FirstUnaudited(L)
    /\ Len(a) = Cardinality(FirstUnaudited(L))
    /\ \A i \in 1..(Len(a) - 1) : a[i].height < a[i + 1].height

\* C12: whenever a prior PoA block exists on the active chain at a height
\* P >= START_POA_BLOCK, P = START_POA_BLOCK included, with last audited
\* height L, the audit list GetListOfPoSInfo produces is exactly the first
\* min(MAX_NUM_POS_BLOCKS_AUDITED, k) proof-of-stake blocks with heights in
\* (L, tip]; no height <= L is audited again and no other block is listed.
C12_ContinuationAudit ==
    [][(PoAReturned /\ ~NoPoAFrom(START_POA_BLOCK))
          => IsContinuation(poaAudits',
                Last(BlockAt(PriorPoA).posBlocksAudited).height)]_vars

\* C13: in every template CreateNewPoABlock returns, the coinbase value is
\* |posBlocksAudited| * 0.25 * COIN when the tip height is at or past the
\* hard-fork height, and |posBlocksAudited| * 0.5 * COIN otherwise.
C13_PoAReward ==
    poaResult = "template" =>
       LET n == Len(poaTemplate.posBlocksAudited)
           tip == poaTemplate.nHeight - 1
       IN /\ tip >= HardFork => poaTemplate.nValue = n * 25000000
          /\ tip < HardFork => poaTemplate.nValue = n * 50000000

\* A template built on the hard-fork height itself.
C13_Witness ==
    /\ poaResult = "template"
    /\ poaTemplate.nHeight - 1 = HardFork
    /\ poaTemplate.nValue = Len(poaTemplate.posBlocksAudited) * 25000000

(***************************************************************************)
(* Properties of the coinbase and the coinstake of a template.             *)
(***************************************************************************)
RECURSIVE SumFees(_)
SumFees(i) ==
    IF i > Len(order) THEN 0 ELSE mempool[order[i].tx].fee + SumFees(i + 1)

RECURSIVE SumValues(_, _)
SumValues(vout, i) ==
    IF i > Len(vout) THEN 0 ELSE vout[i].nValue + SumValues(vout, i + 1)

PoSTemplate == fProofOfStake /\ result = "template"

\* C14: in every proof-of-stake template CreateNewBlock returns, also after
\* the fees were accounted for and after IncrementExtraNonce rewrote the
\* coinbase (in CreateNewBlock and in BitcoinMiner), vtx[0].vout[0] is empty
\* and vtx[1] is the wallet's coinstake: its first output is the empty
\* marker, its outputs pay the wallet's stake script, and it carries the
\* wallet's stake and reward plus the fees.  A proof-of-stake call that got
\* no coinstake (no stake found, or a search time before the last one) has
\* returned no template.
C14_PoSTemplate ==
    /\ PoSTemplate =>
          /\ IsEmpty(coinbaseTx.vout[1])
          /\ Len(coinbaseTx.vout) = 1
          /\ Len(vtx) >= 2 /\ vtx[2] = Coinstake
          /\ IsCoinStake(coinstakeTx)
          /\ \A i \in 1..Len(coinstakeTx.vout) :
                coinstakeTx.vout[i].scriptPubKey \in {"", "stake"}
          /\ SumValues(coinstakeTx.vout, 1) =
                SumValues(WalletCoinstake.vout, 1) + SumFees(1)
    /\ (/\ fProofOfStake
        /\ bpc \in {"collect", "select", "finish", "done", "returned"}
        /\ coinstakeTx = NoTx)
         => (bpc = "done" /\ result = "null")

\* A proof-of-stake template with fees, passed through IncrementExtraNonce
\* by CreateNewBlock and by BitcoinMiner.
C14_Witness ==
    /\ PoSTemplate
    /\ bpc = "returned"
    /\ nFees > 0
    /\ coinbaseTx.scriptSig = <<pindexPrevCaller.nHeight + 1, 1>>
    /\ lastPrevBlock = hashPrevBlock

\* C15: in every proof-of-work template CreateNewBlock returns without a
\* payee output, vtx[0].vout[0].nValue is the subsidy of the block that
\* hashPrevBlock names plus the fees of the admitted transactions, and
\* vTxFees[0] is that fee sum.
C15_PoWCoinbaseValue ==
    (/\ ~fProofOfStake
     /\ result = "template"
     /\ ~payee
     /\ hashPrevBlock = pindexPrevInner.hash)
      => /\ coinbaseTx.vout[1].nValue =
               GetBlockValue(pindexPrevInner.nHeight) + SumFees(1)
         /\ vTxFees[1] = SumFees(1)

(***************************************************************************)
(* Properties of the supervisor and of the worker loop.                    *)
(***************************************************************************)
Live(w) == wpc[w] \notin {"idle", "exited"}

\* What holds when GeneratePrcycoins(fGenerate, nThreads) has returned.
GroupReplaced(fGenerate, nThreads) ==
    /\ \A w \in Workers \ minerThreads :
          wpc[w] # "idle" => (interrupted[w] /\ wpc[w] = "exited")
    /\ Cardinality({w \in Workers : Live(w)}) =
          IF fGenerate /\ nThreads > 0 THEN nThreads ELSE 0

\* C16: when a call GeneratePrcycoins(fGenerate, pwallet, nThreads) with
\* nThreads >= 0 returns, every worker of an earlier group has been
\* interrupted and has terminated, and the number of live workers is
\* nThreads if fGenerate and nThreads > 0, and 0 otherwise.
C16_GroupReplaced ==
    [][\A fGenerate \in BOOLEAN, nThreads \in 0..NumWorkers :
         GeneratePrcycoins(fGenerate, nThreads)
           => GroupReplaced(fGenerate, nThreads)']_vars

\* C17: a worker whose interruption was requested terminates, whatever it
\* was doing.
C17_CancelTerminates ==
    \A w \in Workers :
      (interrupted[w] /\ wpc[w] # "idle") ~> (wpc[w] = "exited")

\* C18: when ProcessBlockFound has returned failure, the worker's next step
\* drops the block and takes the worker to the gate; it does not submit the
\* same block again.
C18_FailureToGate ==
    [][\A w \in Workers :
         (wpc[w] = "pbf_ret" /\ ret[w] = "false" /\ wpc'[w] # "pbf_ret")
           => (wpc'[w] = "gate" /\ pblock'[w] = NoBlock)]_vars

\* C19: a worker that is still in proof-of-work mode, hence was started in
\* it, terminates at a gating step at which tip height - 6 > LAST_POW_BLOCK.
C19_PoWWorkerExits ==
    [][\A w \in Workers :
         (Gate(w) /\ ~wPoS[w] /\ nBestHeight - 6 > LAST_POW_BLOCK)
           => wpc'[w] = "exited"]_vars

\* C20: a gating step at tip height >= LAST_POW_BLOCK that goes on with the
\* iteration leaves the worker in proof-of-stake mode; the mode of a started
\* worker never goes back from proof of stake to proof of work; a worker
\* enters the nonce search only in proof-of-work mode, from a gating step
\* that saw the tip below LAST_POW_BLOCK.
C20_ForcedPoS ==
    [][\A w \in Workers :
         /\ (Gate(w) /\ nBestHeight >= LAST_POW_BLOCK
                     /\ wpc'[w] \in {"gate", "build"}) => wPoS'[w]
         /\ (wpc[w] # "idle" /\ wPoS[w]) => wPoS'[w]
         /\ (Gate(w) /\ wpc'[w] = "build" /\ ~wPoS'[w])
               => nBestHeight < LAST_POW_BLOCK
         /\ (wpc[w] = "build" /\ wpc'[w] # "build")
               => (wpc'[w] = "search" => ~wPoS[w])
         /\ wpc'[w] \in {"search", "heartbeat"} => ~wPoS'[w]]_vars

\* A worker started in proof-of-work mode, back at the gate after a nonce
\* search, with the tip at LAST_POW_BLOCK or above, now in proof-of-stake
\* mode.
C20_Witness ==
    \E w \in Workers :
      /\ wpc[w] = "build"
      /\ wPoS[w]
      /\ fLastLoopOrphan[w]
      /\ nBestHeight >= LAST_POW_BLOCK

\* C21: IncrementExtraNonce resets the caller's counter and takes the new
\* hash into the static when the block's hashPrevBlock differs from the
\* static; in every case the counter then grows by exactly one, the
\* coinbase scriptSig becomes (height, counter) and is at most 100 bytes,
\* the Merkle root is recomputed over the block, and nothing but the
\* scriptSig of vtx[0] changes in the block.
C21_IncrementExtraNonce ==
    [][CallerIncrementExtraNonce =>
         /\ hashPrevBlock # lastPrevBlock =>
               nExtraNonce' = 1 /\ lastPrevBlock' = hashPrevBlock
         /\ hashPrevBlock = lastPrevBlock =>
               nExtraNonce' = nExtraNonce + 1
               /\ lastPrevBlock' = lastPrevBlock
         /\ coinbaseTx'.scriptSig =
               <<pindexPrevCaller.nHeight + 1, nExtraNonce'>>
         /\ ScriptSigSize(coinbaseTx'.scriptSig) <= 100
         /\ coinbaseTx'.vout = coinbaseTx.vout
         /\ hashMerkleRoot' =
               BlockMerkleRoot(<<coinbaseTx'>> \o RestOf(vtx', coinstakeTx'))
         /\ vtx' = vtx
         /\ coinstakeTx' = coinstakeTx
         /\ mempool' = mempool
         /\ hashPrevBlock' = hashPrevBlock]_vars

\* A proof-of-work template with admitted transactions, the second in a row
\* on the same tip: the counter was not reset and stands at 2, after an
\* earlier template on another tip had reset it.
C21_Witness ==
    /\ bpc = "returned"
    /\ ~fProofOfStake
    /\ Len(vtx) > 1
    /\ nExtraNonce = 2
    /\ coinbaseTx.scriptSig = <<nBestHeight + 1, 2>>
    /\ lastPrevBlock = hashPrevBlock
    /\ g_best_block # 1

\* C22: in every returned template, of either mode, vTxFees and vTxSigOps
\* are as long as vtx, and entry i of vTxFees is the fee of vtx[i] for every
\* admitted transaction.
C22_ParallelVectors ==
    (bpc = "done" /\ result = "template") =>
       /\ Len(vTxFees) = Len(vtx)
       /\ Len(vTxSigOps) = Len(vtx)
       /\ \A i \in 1..Len(vtx) :
             (vtx[i] \in TxIds /\ i <= Len(vTxFees)) =>
                vTxFees[i] = mempool[vtx[i]].fee

\* C23: the list GetListOfPoSInfo returns holds each listed height once, in
\* rising order; the entry of a block of the chain has the block's hash and
\* height, the header time when re-verification succeeds and nTime = 0 when
\* it fails; and no proof-of-stake block between two listed heights is left
\* out, whether its re-verification failed or not.
C23_AuditIsRecord ==
    [][CreateNewPoABlock =>
         \A k \in 1..Len(poaAudits') :
            LET a == poaAudits'[k] IN
            /\ a.height <= TipHeight =>
                  /\ a.hash = BlockAt(a.height).hash
                  /\ BlockAt(a.height).reverifyOk =>
                        a.nTime = BlockAt(a.height).nTime
                  /\ ~BlockAt(a.height).reverifyOk => a.nTime = 0
            /\ k > 1 =>
                  /\ poaAudits'[k - 1].height < a.height
                  /\ \A h \in (poaAudits'[k - 1].height + 1)..(a.height - 1) :
                        BlockAt(h).type # "pos"]_vars

\* A list of three continuing from an earlier PoA block: the middle block
\* failed re-verification and is listed with nTime = 0 between two blocks
\* listed with their header times.
C23_Witness ==
    /\ poaResult = "template"
    /\ poaTemplate.hashPrevPoABlock # NullHash
    /\ Len(poaAudits) = 3
    /\ poaAudits[1].height > LAST_POW_BLOCK + 1
    /\ poaAudits[1].nTime = TimeAt(poaAudits[1].height)
    /\ poaAudits[2].nTime = 0
    /\ poaAudits[2].hash = HashAt(poaAudits[2].height)
    /\ poaAudits[3].nTime = TimeAt(poaAudits[3].height)

\* C24: in every template CreateNewPoABlock returns, hashPrevPoABlock is
\* null exactly when the audit list was built by the genesis rule, that is,
\* starts at LAST_POW_BLOCK + 1; otherwise it is the hash of the most recent
\* PoA block of the active chain, and the list continues after the last
\* height that block audited.
C24_PrevPoAHash ==
    [][(PoAReturned /\ poaResult' = "template") =>
         LET first == poaTemplate'.posBlocksAudited[1].height
             genesis == first = LAST_POW_BLOCK + 1
         IN /\ (poaTemplate'.hashPrevPoABlock = NullHash) <=> genesis
            /\ ~genesis =>
                  /\ PoAHeights # {}
                  /\ poaTemplate'.hashPrevPoABlock = BlockAt(PriorPoA).hash
                  /\ first > Last(BlockAt(PriorPoA).posBlocksAudited).height
       ]_vars

\* C25: every admitted transaction with a fee rate below 5000 and with
\* running size + own size >= nBlockMinSize when it was popped was admitted
\* with the selector still in priority mode after that pop: its priority
\* satisfied AllowFree and running size + own size was below
\* nBlockPrioritySize.
C25_FreeFloor ==
    \A k \in 1..Len(order) :
       LET o == order[k]
           tx == mempool[o.tx]
       IN (/\ CFeeRate(tx.fee, tx.size) < MinRelayTxFee
           /\ o.sizeBefore + tx.size >= nBlockMinSize)
          => /\ ~o.byFee
             /\ AllowFree(tx.prio)
             /\ o.sizeBefore + tx.size < nBlockPrioritySize

\* C26: for every template the worker has passed through IncrementExtraNonce
\* and that names the current best block, the tip read for the subsidy
\* (line 196), the tip read for nBits and the coinstake search (line 175),
\* the tip read under the lock (line 257), whose hash is hashPrevBlock, and
\* the tip the worker read itself (line 777), whose height goes into the
\* coinbase scriptSig, are one and the same block.
C26_TipConsistency ==
    (bpc = "returned" /\ hashPrevBlock = g_best_block) =>
       /\ hashPrevBlock = pindexPrevInner.hash
       /\ prev = pindexPrevInner
       /\ pindexPrevOuter = pindexPrevInner
       /\ pindexPrevCaller = pindexPrevInner
       /\ coinbaseTx.scriptSig[1] = pindexPrevInner.nHeight + 1

\* C27: a solved block is handed to the chain processor at most once: no
\* worker raises the block-found signal for, or invokes ProcessNewBlock on,
\* a block for which that was done before.
C27_SubmitOnce ==
    [][\A w \in Workers :
         /\ PBF_Process(w) => pblock[w].hash \notin processed
         /\ (PBF_Check(w) /\ wpc'[w] = "pbf_process")
               => pblock[w].hash \notin blockFound]_vars

\* C29: a call of CreateNewPoABlock at a tip height >= START_POA_BLOCK
\* dereferences no block index above the tip, and every height in the audit
\* list it builds is at most the tip height.
C29_AuditWithinTip ==
    [][PoACalled =>
         /\ ~GetListOfPoSInfo(TipHeight).pastTip
         /\ poaResult' # "crash"
         /\ \A k \in 1..Len(poaAudits') :
               poaAudits'[k].height <= TipHeight]_vars

\* C30: whenever the block a worker passes through IncrementExtraNonce in
\* BitcoinMiner has another hashPrevBlock than the block the worker passed
\* before, the block leaves with extra nonce 1 in its coinbase, whatever
\* another worker or the proof-of-stake call inside CreateNewBlock did to
\* the static.
C30_PerWorkerReset ==
    [][(CallerIncrementExtraNonce /\ hashPrevBlock # noncedPrevBlock)
          => coinbaseTx'.scriptSig[2] = 1]_vars

\* C28: the enable flag follows the supervisor: with no group of workers
\* running since the last GeneratePrcycoins(false, ...), the flag stays
\* false until the supervisor's next call; no worker spawned earlier turns
\* it on again.
C28_FlagFollowsSupervisor ==
    [][(~fGeneratePrcycoins /\ minerThreads = {} /\ fGeneratePrcycoins')
          => \E n \in ThreadArgs : GeneratePrcycoins(TRUE, n)]_vars

=============================================================================
